---- MODULE Spec2Model ----
(***************************************************************************)
(* Verification model of the Jurisly chat application.                     *)
(*                                                                         *)
(* Three parts of the program are modelled, each with its own              *)
(* specification:                                                          *)
(*   SpecFeed : the live message feed hook (useRealtimeChat) over the      *)
(*              hosted chat_history table and its change notifications     *)
(*   SpecAuth : the authentication context (AuthProvider), hosted mode     *)
(*              and browser-storage fallback mode                          *)
(*   SpecChat : the browser-storage chat container (ChatProvider) and the  *)
(*              chat screen's send path (ChatPage.handleSendMessage)       *)
(***************************************************************************)
EXTENDS Integers, Sequences, FiniteSets, TLC

(* ------------------------------ bounds --------------------------------- *)

\* operations called by the component or made by other devices in one run
\* of the live feed: it bounds the rows inserted, the runs of the realtime
\* effect and the notifications waiting in a channel
MaxOps == 3
\* values Date.now() takes in one run of the chat screen
MaxClock == 2
\* conversations kept in the chat container
MaxConvs == 2
\* messages in the container when the input still accepts a message
MaxMessages == 3
\* gestures the user makes in one run of the chat screen
MaxGestures == 4
\* half days that pass in one run of the password reset
MaxDays == 3
\* reset tokens made in one run of the password reset
MaxTokens == 2

(* ----------------------------- constants ------------------------------- *)

NoUser == "none"
NoConv == "none"
NoChannel == 0
NoId == 0
Users == {"u1"}
Convs == {"c1"}
Emails == {"a@x", "b@x"}
Passwords == {"p1", "p2"}
Names == {"n1", "n2"}

(* ------------------------------ state ---------------------------------- *)

VARIABLES
  \* --- hosted services seen by the live feed ---
  authUser,        \* supabase.auth.getUser(): the signed-in user of this tab
  table,           \* rows of public.chat_history
  nextId,          \* rows inserted so far + 1 (gives ids and created_at)
  channels,        \* open realtime channels: id -> [conv, uid, queue]
  \* --- useRealtimeChat hook instance ---
  mounted,         \* the component using the hook is mounted
  conversationId,  \* the hook's argument
  messages,        \* useState<ChatMessage[]>
  channel,         \* useState<RealtimeChannel | null>
  effects,         \* runs of the realtime effect, in order
  ops,             \* operations started so far
  sent,            \* history: ids of the rows sendMessage returned
  cleared,         \* history: filters cleared with no insert since
  last,            \* history: the step just taken and what it returned
  \* --- AuthProvider and the services it talks to ---
  useSupabase,     \* isSupabaseConfigured(): hosted mode, else fallback
  user,            \* useState<User | null>
  session,         \* hosted: the session kept by the platform SDK
  accounts,        \* hosted: email -> [password, name, confirmed]
  jurisly_users,   \* localStorage 'jurisly_users': credential records
  jurisly_user,    \* localStorage 'jurisly_user': stored session record
  lastAuth,        \* history: the auth call just made and what it returned
  \* --- ChatProvider and ChatPage ---
  conversations,   \* useState<Conversation[]>
  currentConversationId, \* useState<string | null>
  chatUser,        \* user?.email as ChatProvider sees it, NoUser when
                   \* nobody is signed in and ChatPage is unmounted
  queued,          \* the state updates the load effect has queued for
                   \* the next render: none, or <<[list, current id]>>
  isTyping,        \* ChatPage: useState(false)
  pending,         \* handleSendMessage calls waiting for sendMessageToAI:
                   \* [conv, stale], stale when their ChatPage is unmounted
  initTimer,       \* setTimeout(createInitialChat, 0) is waiting: the
                   \* user?.email of the createInitialChat it holds
  jurisly_chats,   \* localStorage 'jurisly_chats_<email>', by email; <<>>
                   \* when absent
  jurisly_chat_history, \* localStorage 'jurisly_chat_history'; <<>> when absent
  now,             \* Date.now()
  gestures,        \* gestures the user has made so far
  lastChat,        \* history: the chat step just taken
  \* --- SettingsProvider ---
  language,        \* useState('en')
  voiceEnabled,    \* useState(true)
  aiMode,          \* useState<AIMode>('text')
  theme,           \* useState<Theme>('dark')
  notificationTone, \* useState(true)
  jurisly_settings, \* localStorage 'jurisly_settings': <<>> when absent,
                   \* else <<the stored object>>
  lastSettings,    \* history: the settings step just taken
  \* --- ForgotPassword and ResetPassword (browser storage) ---
  jurisly_reset_tokens, \* localStorage 'jurisly_reset_tokens': the records
                   \* [token, email, timestamp] it holds
  nextToken,       \* tokens made so far + 1: Math.random() gives a new one
  today,           \* Date.now(), in half days
  pages,           \* tab -> the ResetPassword component it shows
  lastReset        \* history: the reset step just taken

feedVars == <<authUser, table, nextId, channels, mounted, conversationId,
              messages, channel, effects, ops, sent, cleared, last>>

authVars == <<useSupabase, user, session, accounts, jurisly_users,
              jurisly_user, lastAuth>>

chatVars == <<conversations, currentConversationId, chatUser, queued,
              isTyping, pending, initTimer, jurisly_chats, jurisly_chat_history, now,
              gestures, lastChat>>

settingsVars == <<language, voiceEnabled, aiMode, theme, notificationTone,
                  jurisly_settings, lastSettings>>

resetVars == <<jurisly_reset_tokens, nextToken, today, pages, lastReset>>

vars == <<feedVars, authVars, chatVars, settingsVars, resetVars>>

(* ------------------------- the hosted table ---------------------------- *)

\* One row of public.chat_history.  created_at is the insertion counter of
\* the table; the message text and role are carried unchanged by every
\* operation and are abstracted to whether the row was edited since its
\* insertion.
Row(id, u, c) ==
  [id |-> id, user_id |-> u, conversation_id |-> c, created_at |-> id,
   edited |-> FALSE]

\* A postgres_changes payload.
Event(type, row) == [type |-> type, row |-> row]

Ids(list) == {list[i].id : i \in DOMAIN list}

RECURSIVE OrderByCreatedAt(_)
\* .order('created_at', { ascending: true })
OrderByCreatedAt(rows) ==
  IF rows = {} THEN <<>>
  ELSE LET first == CHOOSE r \in rows :
                      \A q \in rows : r.created_at <= q.created_at
       IN <<first>> \o OrderByCreatedAt(rows \ {first})

\* Row level security: a request made by user `caller` sees only
\* the rows whose user_id is auth.uid().
Visible(caller) == {r \in table : r.user_id = caller}

\* select('*').eq('user_id', uid) [.eq('conversation_id', conv)]
SelectRows(caller, uid, conv) ==
  {r \in Visible(caller) :
     r.user_id = uid /\ (conv = NoConv \/ r.conversation_id = conv)}

\* filter: `user_id=eq.${user.id}` : whether a channel subscribed for uid
\* is sent the event.
Matches(uid, ev) == ev.row.user_id = uid

\* The table changed: the events are queued on every open channel whose
\* filter they pass, in commit order.
Notify(chs, evs) ==
  [c \in DOMAIN chs |->
     [chs[c] EXCEPT !.queue =
        @ \o SelectSeq(evs, LAMBDA ev : Matches(chs[c].uid, ev))]]


(* --------------------- useRealtimeChat: handlers ----------------------- *)

\* setState of a component that is no longer mounted is dropped.
SetMessages(new) == IF mounted THEN new ELSE messages

\* Variant of the INSERT handler without the lookup of the id.
OnInsertAppend(conv, current, newMessage) ==
  IF conv = NoConv \/ newMessage.conversation_id = conv
  THEN Append(current, newMessage)
  ELSE current

\* Variant of the INSERT handler without the conversation test.
OnInsertAnyConv(conv, current, newMessage) ==
  IF \E i \in DOMAIN current : current[i].id = newMessage.id
  THEN current
  ELSE Append(current, newMessage)

\* INSERT handler of a channel whose effect closure holds `conv`.
OnInsert(conv, current, newMessage) ==
  IF conv = NoConv \/ newMessage.conversation_id = conv
  THEN IF \E i \in DOMAIN current : current[i].id = newMessage.id
       THEN current
       ELSE Append(current, newMessage)
  ELSE current

\* UPDATE handler.
OnUpdate(current, updatedMessage) ==
  [i \in DOMAIN current |->
     IF current[i].id = updatedMessage.id THEN updatedMessage ELSE current[i]]

\* DELETE handler.
OnDelete(current, deletedMessage) ==
  SelectSeq(current, LAMBDA msg : msg.id # deletedMessage.id)

Handle(conv, current, ev) ==
  CASE ev.type = "INSERT" -> OnInsert(conv, current, ev.row)
    [] ev.type = "UPDATE" -> OnUpdate(current, ev.row)
    [] ev.type = "DELETE" -> OnDelete(current, ev.row)

\* The history record: the operation of the step just taken, the value it
\* returned (ok; for a notification: delivered once), the row id it worked
\* with, whether it sent a write or delete request to the table (call),
\* whether the row was there before the step (had: in the local list for a
\* notification, in the table for a delete) and the conversationId of the
\* closure the operation ran in (conv).
Last(op, ok, id, call, had, conv) ==
  [op |-> op, ok |-> ok, id |-> id, call |-> call, had |-> had,
   conv |-> conv]

Quiet == Last("other", TRUE, 0, FALSE, FALSE, NoConv)

\* One more operation is started.
Op == ops < MaxOps /\ ops' = ops + 1

(* ------------------- useRealtimeChat: realtime effect ------------------ *)

\* One run of the effect: `conv` is the conversationId of its closure,
\* `rtc` its local realtimeChannel and `chan` the `channel` state its
\* cleanup closure captured.
NewEffect(conv, chan) ==
  [conv |-> conv, pc |-> "fetch", rtc |-> NoChannel, chan |-> chan]

\* What fetchMessages hands to setMessages: [] without a user or on an
\* error, else the rows of the user (and conversation) by creation time.
FetchedRows(err, conv) ==
  IF authUser = NoUser \/ err THEN <<>>
  ELSE OrderByCreatedAt(SelectRows(authUser, authUser, conv))

\* setupRealtime: `await fetchMessages()` resolves.
EffFetch(e) ==
  /\ ops' = ops
  /\ effects[e].pc = "fetch"
  /\ \E err \in BOOLEAN :
       /\ messages' = SetMessages(FetchedRows(err, effects[e].conv))
       /\ last' = Quiet
  /\ effects' = [effects EXCEPT ![e].pc = "subscribe"]
  /\ UNCHANGED <<authUser, table, nextId, channels, mounted,
                 conversationId, channel, sent, cleared>>

\* The channel setupRealtime creates and subscribes.
OpenChannel(e) ==
  (e :> [conv |-> effects[e].conv, uid |-> authUser, queue |-> <<>>])
    @@ channels

\* setupRealtime: the second getUser() resolves; without a user it returns,
\* else the channel is subscribed, kept in realtimeChannel and handed to
\* setChannel.
EffSubscribe(e) ==
  /\ ops' = ops
  /\ effects[e].pc = "subscribe"
  /\ IF authUser = NoUser
     THEN /\ effects' = [effects EXCEPT ![e].pc = "done"]
          /\ UNCHANGED <<channels, channel>>
     ELSE /\ channels' = OpenChannel(e)
          /\ effects' = [effects EXCEPT ![e].pc = "done", ![e].rtc = e]
          /\ channel' = IF mounted THEN e ELSE channel
  /\ last' = Quiet
  /\ UNCHANGED <<authUser, table, nextId, mounted, conversationId,
                 messages, sent, cleared>>

\* The effect's cleanup function: supabase.removeChannel(realtimeChannel)
\* and supabase.removeChannel(channel), each when not null.
Cleanup(e) ==
  [c \in DOMAIN channels \ {effects[e].rtc, effects[e].chan} |-> channels[c]]

Current == Len(effects)

\* The component re-renders with another conversationId: the previous
\* effect is cleaned up and the effect runs again.
ChangeConv(c) ==
  /\ Op
  /\ mounted
  /\ c # conversationId
  /\ channels' = Cleanup(Current)
  /\ conversationId' = c
  /\ effects' = Append(effects, NewEffect(c, channel))
  /\ last' = Quiet
  /\ UNCHANGED <<authUser, table, nextId, mounted, messages, channel,
                 sent, cleared>>

\* The component unmounts: cleanup runs and the hook's state is discarded.
Unmount ==
  /\ Op
  /\ mounted
  /\ channels' = Cleanup(Current)
  /\ mounted' = FALSE
  /\ messages' = <<>>
  /\ channel' = NoChannel
  /\ last' = Quiet
  /\ UNCHANGED <<authUser, table, nextId, conversationId, effects, sent,
                 cleared>>

(* -------------------- useRealtimeChat: operations ---------------------- *)
(* Each operation is one step, taken when its request is served.  The      *)
(* parameter e is the run of the effect during which the called function   *)
(* was created: its closure holds effects[e].conv, also when the           *)
(* conversationId has changed since the call.                              *)

\* The insert policy: WITH CHECK (auth.uid() = user_id).
InsertAllowed(uid) == authUser = uid

\* sendMessage(message, role): null without a user or on an error, else
\* the inserted row; the local list is not touched.
SendMessage(e) ==
  /\ Op
  /\ mounted
  /\ IF authUser = NoUser
     THEN /\ last' = Last("send", FALSE, 0, FALSE, FALSE, effects[e].conv)
          /\ UNCHANGED <<table, nextId, channels, sent, cleared>>
     ELSE \E err \in BOOLEAN :
            IF err \/ ~InsertAllowed(authUser)
            THEN /\ last' = Last("send", FALSE, 0, TRUE, FALSE,
                                 effects[e].conv)
                 /\ UNCHANGED <<table, nextId, channels, sent, cleared>>
            ELSE /\ LET row == Row(nextId, authUser, effects[e].conv)
                    IN /\ table' = table \cup {row}
                       /\ channels' = Notify(channels,
                                             <<Event("INSERT", row)>>)
                       /\ last' = Last("send", TRUE, row.id, TRUE, FALSE,
                                       effects[e].conv)
                       /\ sent' = sent \cup {row.id}
                 /\ nextId' = nextId + 1
                 /\ cleared' = {}
  /\ UNCHANGED <<authUser, mounted, conversationId, messages, channel,
                 effects>>

\* delete().eq('id', messageId) under the delete policy
\* USING (auth.uid() = user_id): the rows that go.
DeletedById(caller, messageId) ==
  {r \in Visible(caller) : r.id = messageId}

\* What deleteMessage returns: false on an error of the request, else true.
DeleteResult(err, gone) == ~err

RECURSIVE DeleteEvents(_)
\* One DELETE event per deleted row.
DeleteEvents(gone) ==
  IF gone = {} THEN <<>>
  ELSE LET r == CHOOSE x \in gone : \A y \in gone : x.id <= y.id
       IN <<Event("DELETE", r)>> \o DeleteEvents(gone \ {r})

\* deleteMessage(messageId): one request, no getUser() before it.
DeleteMessage(messageId) ==
  /\ Op
  /\ mounted
  /\ \E err \in BOOLEAN :
       LET gone == IF err THEN {} ELSE DeletedById(authUser, messageId)
       IN /\ table' = table \ gone
          /\ channels' = Notify(channels, DeleteEvents(gone))
          /\ last' = Last("delete", DeleteResult(err, gone), messageId,
                          TRUE, gone # {}, NoConv)
  /\ UNCHANGED <<authUser, nextId, mounted, conversationId, messages,
                 channel, effects, sent, cleared>>

\* Variant of the clearing request that always compares conversation_id.
ClearedRowsOfConv(caller, uid, conv) ==
  {r \in Visible(caller) : r.user_id = uid /\ r.conversation_id = conv}

\* delete().eq('user_id', uid) [.eq('conversation_id', conv)]
ClearedRows(caller, uid, conv) == SelectRows(caller, uid, conv)

\* clearMessages(): false without a user or on an error; else the rows are
\* deleted, setMessages([]) runs and it returns true.
ClearMessages(e) ==
  /\ Op
  /\ mounted
  /\ IF authUser = NoUser
     THEN /\ last' = Last("clear", FALSE, 0, FALSE, FALSE, effects[e].conv)
          /\ UNCHANGED <<table, channels, messages, cleared>>
     ELSE \E err \in BOOLEAN :
            LET gone == IF err THEN {}
                        ELSE ClearedRows(authUser, authUser, effects[e].conv)
            IN /\ table' = table \ gone
               /\ channels' = Notify(channels, DeleteEvents(gone))
               /\ messages' = IF err THEN messages ELSE SetMessages(<<>>)
               /\ last' = Last("clear", ~err, 0, TRUE, gone # {},
                               effects[e].conv)
               /\ cleared' = IF err THEN cleared
                             ELSE cleared \cup {effects[e].conv}
  /\ UNCHANGED <<authUser, nextId, mounted, conversationId, channel,
                 effects, sent>>

\* refetch(): fetchMessages called by the component.
Refetch(e) ==
  /\ Op
  /\ mounted
  /\ \E err \in BOOLEAN :
       /\ messages' = SetMessages(FetchedRows(err, effects[e].conv))
       /\ last' = Last("fetch", ~err, 0, FALSE, FALSE, effects[e].conv)
  /\ UNCHANGED <<authUser, table, nextId, channels, mounted,
                 conversationId, channel, effects, sent, cleared>>

(* ------------------------- the feed's environment ---------------------- *)

\* Another tab or device of user u inserts a row.
ExtInsert(u, c) ==
  /\ Op
  /\ mounted
  /\ LET row == Row(nextId, u, c)
     IN /\ table' = table \cup {row}
        /\ channels' = Notify(channels, <<Event("INSERT", row)>>)
  /\ nextId' = nextId + 1
  /\ cleared' = {}
  /\ last' = Quiet
  /\ UNCHANGED <<authUser, mounted, conversationId, messages, channel,
                 effects, sent>>

\* A row is updated at the storage layer (another device, a trigger).
ExtUpdate(r) ==
  /\ Op
  /\ mounted
  /\ r \in table
  /\ LET new == [r EXCEPT !.edited = TRUE]
     IN /\ table' = (table \ {r}) \cup {new}
        /\ channels' = Notify(channels, <<Event("UPDATE", new)>>)
  /\ last' = Quiet
  /\ UNCHANGED <<authUser, nextId, mounted, conversationId, messages,
                 channel, effects, sent, cleared>>

\* The next notification of channel c reaches its handler; with `twice`
\* the same notification is delivered two times.
Deliver(c, twice) ==
  /\ ops' = ops
  /\ mounted
  /\ channels[c].queue # <<>>
  /\ LET ev == Head(channels[c].queue)
         once == Handle(channels[c].conv, messages, ev)
     IN /\ messages' = SetMessages(IF twice
                                   THEN Handle(channels[c].conv, once, ev)
                                   ELSE once)
        /\ last' = Last(ev.type, ~twice, ev.row.id, FALSE,
                        ev.row.id \in Ids(messages), channels[c].conv)
        /\ channels' = [channels EXCEPT ![c].queue = Tail(@)]
  /\ UNCHANGED <<authUser, table, nextId, mounted, conversationId, channel,
                 effects, sent, cleared>>

(* ------------------------------ SpecFeed ------------------------------- *)

FeedStart ==
  /\ authUser \in Users \cup {NoUser}
  /\ table = {}
  /\ nextId = 1
  /\ channels = << >>
  /\ mounted = TRUE
  /\ conversationId \in {NoConv, "c1"}
  /\ messages = <<>>
  /\ channel = NoChannel
  /\ effects = <<NewEffect(conversationId, NoChannel)>>
  /\ ops = 0
  /\ sent = {}
  /\ cleared = {}
  /\ last = Quiet

FeedStep ==
  \/ \E e \in DOMAIN effects : EffFetch(e)
  \/ \E e \in DOMAIN effects : EffSubscribe(e)
  \/ \E c \in Convs \cup {NoConv} : ChangeConv(c)
  \/ Unmount
  \/ \E e \in DOMAIN effects : SendMessage(e)
  \/ \E id \in 1..MaxOps : DeleteMessage(id)
  \/ \E e \in DOMAIN effects : ClearMessages(e)
  \/ \E e \in DOMAIN effects : Refetch(e)
  \/ \E u \in Users, c \in Convs \cup {NoConv} : ExtInsert(u, c)
  \/ \E r \in table : ExtUpdate(r)
  \/ \E c \in DOMAIN channels, twice \in BOOLEAN : Deliver(c, twice)

(* ============================ AuthProvider ============================= *)

\* The User object kept in `user` and stored under 'jurisly_user'.
UserData(email, name) == [email |-> email, name |-> name]

\* `user` and 'jurisly_user' when there is no current user (null).
Nobody == UserData("none", "none")

\* The history record of the auth context: the function called, the
\* success it returned, the reason of a failure, the email and password it
\* was called with, the answers of the identity service to the sign-in and
\* sign-out requests it made, and whether it sent a write to the identity
\* service or to browser storage (call).
AuthLast(op, ok, reason, email, password, via, so, call) ==
  [op |-> op, ok |-> ok, reason |-> reason, email |-> email,
   password |-> password, via |-> via, so |-> so, call |-> call,
   new |-> "none"]

AuthQuiet ==
  AuthLast("other", TRUE, "none", "none", "none", "none", "none", FALSE)

(* ------------------------ the identity service ------------------------- *)

Registered(email, password) ==
  email \in DOMAIN accounts /\ accounts[email].password = password

\* Answers of signInWithPassword: the call rejects, it resolves with an
\* error, or, for the password of a registered account, with a session; an
\* account whose email is not confirmed is answered with the error
\* 'Email not confirmed' or with a user without email_confirmed_at.
SignInOutcomes(email, password) ==
  {"throws", "error"} \cup
    (IF Registered(email, password)
     THEN IF accounts[email].confirmed
          THEN {"session"}
          ELSE {"not_confirmed", "unconfirmed_user"}
     ELSE {})

\* Answers of signOut: done, resolved with an error (the session stays), or
\* rejected.
SignOutOutcomes == {"ok", "error", "throws"}

\* Answers of updateUser and signUp.
WriteOutcomes == {"ok", "error", "throws"}

\* The user the session listener and login build from session.user.
SessionUser(email) == UserData(email, accounts[email].name)

\* onAuthStateChange listener: setUser(...) for a session, else setUser(null).
OnAuthStateChange(sess) ==
  IF sess = NoUser THEN Nobody ELSE SessionUser(sess)

(* ------------------------------- login --------------------------------- *)

\* Variant of the confirmation test that lets every returned user in.
UnconfirmedNever(email) == FALSE

\* !data.user.email_confirmed_at
Unconfirmed(email) == ~accounts[email].confirmed

\* Variant of the credential lookup that compares the email only.
FindUserByEmail(users, email, password) ==
  LET found == {i \in DOMAIN users : users[i].email = email}
  IN IF found = {} THEN 0
     ELSE CHOOSE i \in found : \A j \in found : i <= j

\* users.find(u => u.email === email && u.password === password): the index
\* of the first such record, 0 when there is none.
FindUser(users, email, password) ==
  LET found == {i \in DOMAIN users :
                  users[i].email = email /\ users[i].password = password}
  IN IF found = {} THEN 0
     ELSE CHOOSE i \in found : \A j \in found : i <= j

\* login, hosted branch, for the answers `out` of the sign-in request and
\* `so` of the sign-out request made for an unconfirmed user.
HostedLogin(email, password, out, so) ==
  CASE out = "throws" ->
         /\ lastAuth' = AuthLast("login", FALSE, "unexpected", email,
                                 password, out, "none", FALSE)
         /\ UNCHANGED <<user, session>>
    [] out = "error" ->
         /\ lastAuth' = AuthLast("login", FALSE, "service", email,
                                 password, out, "none", FALSE)
         /\ UNCHANGED <<user, session>>
    [] out = "not_confirmed" ->
         /\ lastAuth' = AuthLast("login", FALSE, "unverified", email,
                                 password, out, "none", FALSE)
         /\ UNCHANGED <<user, session>>
    [] out \in {"session", "unconfirmed_user"} ->
         IF Unconfirmed(email)
         THEN \* the listener has set the user; signOut() is awaited
              /\ session' = IF so = "ok" THEN NoUser ELSE email
              /\ user' = OnAuthStateChange(session')
              /\ lastAuth' = AuthLast("login", FALSE,
                                IF so = "throws" THEN "unexpected"
                                ELSE "unverified",
                                email, password, out, so, FALSE)
         ELSE /\ session' = email
              /\ user' = SessionUser(email)
              /\ lastAuth' = AuthLast("login", TRUE, "none", email,
                                      password, out, "none", FALSE)

\* login, fallback branch.
FallbackLogin(email, password) ==
  LET i == FindUser(jurisly_users, email, password)
  IN IF i # 0
     THEN /\ user' = UserData(jurisly_users[i].email, jurisly_users[i].name)
          /\ jurisly_user' = user'
          /\ lastAuth' = AuthLast("login", TRUE, "none", email, password,
                                  "none", "none", TRUE)
     ELSE /\ lastAuth' = AuthLast("login", FALSE, "invalid", email,
                                  password, "none", "none", FALSE)
          /\ UNCHANGED <<user, jurisly_user>>

\* login(email, password), called from the login page, which is shown only
\* while there is no current user.
Login(email, password) ==
  /\ user = Nobody
  /\ IF useSupabase
     THEN /\ \E out \in SignInOutcomes(email, password) :
               \E so \in (IF out = "unconfirmed_user" THEN SignOutOutcomes
                          ELSE {"none"}) :
                 HostedLogin(email, password, out, so)
          /\ UNCHANGED jurisly_user
     ELSE /\ FallbackLogin(email, password)
          /\ UNCHANGED session
  /\ UNCHANGED <<useSupabase, accounts, jurisly_users>>

(* ------------------------------- signup -------------------------------- *)

\* signup(email, password, name), called from the signup page.
Signup(email, password, name) ==
  /\ user = Nobody
  /\ IF useSupabase
     THEN /\ \E out \in WriteOutcomes :
               IF out = "ok" /\ email \notin DOMAIN accounts
               THEN /\ accounts' =
                         (email :> [password |-> password, name |-> name,
                                    confirmed |-> FALSE]) @@ accounts
                    /\ lastAuth' = AuthLast("signup", TRUE, "none", email,
                                            password, out, "none", TRUE)
               ELSE /\ lastAuth' =
                         AuthLast("signup", FALSE,
                                  IF out = "throws" THEN "unexpected"
                                  ELSE "service",
                                  email, password,
                                  IF out = "ok" THEN "error" ELSE out,
                                  "none", TRUE)
                    /\ UNCHANGED accounts
          /\ UNCHANGED <<user, jurisly_users, jurisly_user>>
     ELSE /\ IF \E i \in DOMAIN jurisly_users : jurisly_users[i].email = email
             THEN /\ lastAuth' = AuthLast("signup", FALSE, "exists", email,
                                          password, "none", "none", FALSE)
                  /\ UNCHANGED <<user, jurisly_users, jurisly_user>>
             ELSE /\ jurisly_users' =
                       Append(jurisly_users,
                              [email |-> email, password |-> password,
                               name |-> name])
                  /\ user' = UserData(email, name)
                  /\ jurisly_user' = user'
                  /\ lastAuth' = AuthLast("signup", TRUE, "none", email,
                                          password, "none", "none", TRUE)
          /\ UNCHANGED accounts
  /\ UNCHANGED <<useSupabase, session>>

\* The owner of the email follows the verification link (hosted mode; the
\* fallback has no such step).
Verify(email) ==
  /\ useSupabase
  /\ email \in DOMAIN accounts
  /\ ~accounts[email].confirmed
  /\ accounts' = [accounts EXCEPT ![email].confirmed = TRUE]
  /\ lastAuth' = AuthQuiet
  /\ UNCHANGED <<useSupabase, user, session, jurisly_users, jurisly_user>>

(* ------------------------------- logout -------------------------------- *)

\* logout(): setUser(null) is inside the try block, after the sign-out.
Logout ==
  /\ IF useSupabase
     THEN /\ \E so \in SignOutOutcomes :
               /\ session' = IF so = "ok" THEN NoUser ELSE session
               /\ user' = IF so = "throws" THEN user ELSE Nobody
               /\ lastAuth' = AuthLast("logout", TRUE, "none", "none",
                                       "none", "none", so, TRUE)
          /\ UNCHANGED jurisly_user
     ELSE /\ jurisly_user' = Nobody
          /\ user' = Nobody
          /\ lastAuth' = AuthLast("logout", TRUE, "none", "none", "none",
                                  "none", "none", TRUE)
          /\ UNCHANGED session
  /\ UNCHANGED <<useSupabase, accounts, jurisly_users>>

\* Variant of the reload whose probe finds no session.
ReloadSignedOut ==
  /\ user' = Nobody
  /\ lastAuth' = AuthLast("reload", TRUE, "none", "none", "none", "none",
                          "none", FALSE)
  /\ UNCHANGED <<useSupabase, session, accounts, jurisly_users, jurisly_user>>

\* The page is loaded again: the provider mounts with user null and its
\* effect probes the session (hosted) or reads 'jurisly_user' (fallback).
Reload ==
  /\ user' = IF useSupabase THEN OnAuthStateChange(session) ELSE jurisly_user
  /\ lastAuth' = AuthLast("reload", TRUE, "none", "none", "none", "none",
                          "none", FALSE)
  /\ UNCHANGED <<useSupabase, session, accounts, jurisly_users, jurisly_user>>

(* ------------------------- profile and password ------------------------ *)

\* users.findIndex(u => u.email === email): 0 when there is none.
FindIndexByEmail(users, email) ==
  LET found == {i \in DOMAIN users : users[i].email = email}
  IN IF found = {} THEN 0
     ELSE CHOOSE i \in found : \A j \in found : i <= j

\* updateUserProfile(updates), the update being a new display name.
UpdateUserProfile(name) ==
  /\ IF user = Nobody
     THEN /\ lastAuth' = AuthLast("updateUserProfile", FALSE, "none", "none",
                                  "none", "none", "none", FALSE)
          /\ UNCHANGED <<user, accounts, jurisly_users, jurisly_user>>
     ELSE LET updatedUser == [user EXCEPT !.name = name]
              stored == /\ user' = updatedUser
                        /\ jurisly_user' = updatedUser
                        /\ lastAuth' = AuthLast("updateUserProfile", TRUE,
                                          "none", user.email, "none", "none",
                                          "none", TRUE)
              failed == /\ lastAuth' = AuthLast("updateUserProfile", FALSE,
                                          "none", user.email, "none", "none",
                                          "none", TRUE)
                        /\ UNCHANGED <<user, jurisly_user>>
          IN IF useSupabase
             THEN /\ \E out \in WriteOutcomes :
                       IF out = "ok" /\ session \in DOMAIN accounts
                       THEN /\ accounts' =
                                 [accounts EXCEPT ![session].name = name]
                            /\ stored
                       ELSE /\ UNCHANGED accounts
                            /\ failed
                  /\ UNCHANGED jurisly_users
             ELSE LET i == FindIndexByEmail(jurisly_users, user.email)
                  IN /\ jurisly_users' =
                          IF i = 0 THEN jurisly_users
                          ELSE [jurisly_users EXCEPT ![i].name = name]
                     /\ stored
                     /\ UNCHANGED accounts
  /\ UNCHANGED <<useSupabase, session>>

\* Variant of the write of updatePassword that leaves the list as it is.
PasswordKept(users, i, newPassword) == users

\* users[userIndex].password = newPassword
PasswordSet(users, i, newPassword) ==
  [users EXCEPT ![i].password = newPassword]

\* updatePassword(currentPassword, newPassword); the history record also
\* keeps the new password (new).
UpdatePassword(currentPassword, newPassword) ==
  /\ IF user = Nobody
     THEN /\ lastAuth' = AuthLast("updatePassword", FALSE, "none", "none",
                                  "none", "none", "none", FALSE)
          /\ UNCHANGED <<session, accounts, jurisly_users>>
     ELSE LET result(ok, via, call) ==
                [AuthLast("updatePassword", ok, "none", user.email,
                          currentPassword, via, "none", call)
                   EXCEPT !.new = newPassword]
          IN IF useSupabase
             THEN /\ \E out \in SignInOutcomes(user.email, currentPassword),
                        upd \in WriteOutcomes :
                       IF out \in {"session", "unconfirmed_user"}
                       THEN /\ session' = user.email
                            /\ IF upd = "ok"
                               THEN /\ accounts' =
                                         [accounts EXCEPT
                                            ![user.email].password =
                                              newPassword]
                                    /\ lastAuth' = result(TRUE, out, TRUE)
                               ELSE /\ UNCHANGED accounts
                                    /\ lastAuth' = result(FALSE, out, TRUE)
                       ELSE /\ lastAuth' = result(FALSE, out, FALSE)
                            /\ UNCHANGED <<session, accounts>>
                  /\ UNCHANGED jurisly_users
             ELSE LET i == FindUser(jurisly_users, user.email,
                                    currentPassword)
                  IN /\ IF i = 0
                        THEN /\ lastAuth' = result(FALSE, "none", FALSE)
                             /\ UNCHANGED jurisly_users
                        ELSE /\ jurisly_users' =
                                  PasswordSet(jurisly_users, i, newPassword)
                             /\ lastAuth' = result(TRUE, "none", TRUE)
                     /\ UNCHANGED <<session, accounts>>
  /\ UNCHANGED <<useSupabase, user, jurisly_user>>

(* ===================== ChatProvider and ChatPage ======================= *)

\* A ChatMessage: id, sender ('user' | 'ai') and the kind of its text.
Message(id, sender, text) == [id |-> id, sender |-> sender, text |-> text]

\* A Conversation.
Conversation(id, userId, title) ==
  [id |-> id, userId |-> userId, title |-> title, messages |-> <<>>]

\* message.text.slice(0, 50) + (message.text.length > 50 ? '...' : '')
TitleOf(text) == [kind |-> "slice50", text |-> text]

\* A title the program gives by itself.
FixedTitle(text) == [kind |-> "fixed", text |-> text]

\* Variant of addMessage that appends to the first conversation of the list.
AddMessageToFirst(convs, convId, message) ==
  [i \in DOMAIN convs |->
     IF i = 1
     THEN [convs[i] EXCEPT !.messages = Append(@, message)]
     ELSE convs[i]]

\* Variant of addMessage that appends to every conversation of the list.
AddMessageEverywhere(convs, convId, message) ==
  [i \in DOMAIN convs |->
     [convs[i] EXCEPT !.messages = Append(@, message)]]

\* addMessage(message) of a closure whose currentConversationId is convId:
\* prev.map(...) over the conversations.
AddMessage(convs, convId, message) ==
  [i \in DOMAIN convs |->
     IF convs[i].id = convId
     THEN [convs[i] EXCEPT
             !.messages = Append(@, message),
             !.title = IF message.sender = "user" /\ convs[i].messages = <<>>
                       THEN TitleOf(message.text)
                       ELSE @]
     ELSE convs[i]]

\* conversations.find(c => c.id === currentConversationId): its index, 0
\* when there is none.
CurrentIndex(convs, convId) ==
  LET found == {i \in DOMAIN convs : convs[i].id = convId}
  IN IF found = {} THEN 0
     ELSE CHOOSE i \in found : \A j \in found : i <= j

\* Somebody is signed in: user?.email is set and ChatPage is mounted.
loggedIn == chatUser # NoUser

\* currentConversation?.id, the dependency of ChatPage's welcome effect:
\* the id of the conversation found for convId, NoId when none is found.
CurrentId(convs, convId) ==
  IF CurrentIndex(convs, convId) = 0 THEN NoId ELSE convId

\* ChatPage's welcome effect, run after a render in which
\* currentConversation?.id went from `before` to that of convId: an empty
\* current conversation is sent the welcome message.
Welcomed(convs, before, convId) ==
  LET i == CurrentIndex(convs, convId)
  IN IF CurrentId(convs, convId) # before /\ i # 0 /\ convs[i].messages = <<>>
     THEN AddMessage(convs, convId, Message(now, "ai", "welcome"))
     ELSE convs

\* The save effect: a non-empty list is written to 'jurisly_chats_<email>'.
Saved(convs, stored) == IF convs # <<>> THEN convs ELSE stored

\* The state after the provider and the page have rendered `convs` with
\* current conversation `convId`. The welcome effect belongs to ChatPage and
\* the save effect needs user?.email: neither runs while nobody is signed in.
Render(convs, convId) ==
  /\ conversations' =
       IF loggedIn
       THEN Welcomed(convs, CurrentId(conversations, currentConversationId),
                     convId)
       ELSE convs
  /\ currentConversationId' = convId
  /\ jurisly_chats' =
       IF loggedIn
       THEN [jurisly_chats EXCEPT ![chatUser] = Saved(conversations', @)]
       ELSE jurisly_chats

\* Total number of messages kept in the conversations.
RECURSIVE Messages(_)
Messages(convs) ==
  IF convs = <<>> THEN 0
  ELSE Len(Head(convs).messages) + Messages(Tail(convs))

ChatLast(op, failed, conv) == [op |-> op, failed |-> failed, conv |-> conv]

ChatQuiet == ChatLast("other", FALSE, NoId)

\* The user makes one more gesture, handled once the provider has rendered
\* the updates queued before.
Gesture ==
  /\ queued = <<>>
  /\ gestures < MaxGestures
  /\ gestures' = gestures + 1

\* Time passes: Date.now() grows.
Tick ==
  /\ queued = <<>>
  /\ now < MaxClock
  /\ now' = now + 1
  /\ lastChat' = ChatQuiet
  /\ UNCHANGED <<conversations, currentConversationId, chatUser, queued,
                 isTyping, pending, initTimer, jurisly_chats,
                 jurisly_chat_history, gestures>>

\* Variant of createInitialChat's list with the title of createNewChat.
InitialChatUntitled(email) ==
  <<Conversation(now, email, FixedTitle("New Chat"))>>

\* The list set by a createInitialChat() whose closure holds user?.email.
InitialChat(email) ==
  <<Conversation(now, email, FixedTitle("Welcome to Jurisly"))>>

\* createInitialChat()
CreateInitialChat(email) == Render(InitialChat(email), now)

\* The timer set by deleteConversation fires.
TimerFires ==
  /\ queued = <<>>
  /\ initTimer # NoUser
  /\ initTimer' = NoUser
  /\ CreateInitialChat(initTimer)
  /\ lastChat' = ChatQuiet
  /\ UNCHANGED <<now, chatUser, queued, isTyping, pending, jurisly_chat_history,
                 gestures>>

\* createNewChat()
CreateNewChat ==
  /\ loggedIn
  /\ Gesture
  /\ Len(conversations) < MaxConvs
  /\ Render(<<Conversation(now, chatUser, FixedTitle("New Chat"))>>
              \o conversations, now)
  /\ lastChat' = ChatLast("create", FALSE, now)
  /\ UNCHANGED <<now, chatUser, queued, isTyping, pending, initTimer,
                 jurisly_chat_history>>

\* switchConversation(convId), from the sidebar's list.
SwitchConversation(convId) ==
  /\ loggedIn
  /\ Gesture
  /\ \E i \in DOMAIN conversations : conversations[i].id = convId
  /\ convId # currentConversationId
  /\ Render(conversations, convId)
  /\ lastChat' = ChatQuiet
  /\ UNCHANGED <<now, chatUser, queued, isTyping, pending, initTimer,
                 jurisly_chat_history>>

\* deleteConversation(convId), from the sidebar's list.
DeleteConversation(convId) ==
  /\ loggedIn
  /\ Gesture
  /\ \E i \in DOMAIN conversations : conversations[i].id = convId
  /\ LET filtered == SelectSeq(conversations,
                               LAMBDA conv : conv.id # convId)
     IN IF convId = currentConversationId
        THEN IF filtered # <<>>
             THEN /\ Render(filtered, filtered[1].id)
                  /\ UNCHANGED initTimer
             ELSE /\ Render(filtered, NoId)
                  /\ initTimer' = chatUser
        ELSE /\ Render(filtered, currentConversationId)
             /\ UNCHANGED initTimer
  /\ lastChat' = ChatLast("delete", FALSE, convId)
  /\ UNCHANGED <<now, chatUser, queued, isTyping, pending, jurisly_chat_history>>

\* clearAllChats(): the stored key is removed, the list emptied and
\* createInitialChat() called.
ClearAllChats ==
  /\ loggedIn
  /\ Gesture
  /\ conversations' =
       Welcomed(InitialChat(chatUser),
                CurrentId(conversations, currentConversationId), now)
  /\ currentConversationId' = now
  /\ jurisly_chats' =
       [jurisly_chats EXCEPT ![chatUser] = Saved(conversations', <<>>)]
  /\ lastChat' = ChatLast("clear", FALSE, NoId)
  /\ UNCHANGED <<now, chatUser, queued, isTyping, pending, initTimer,
                 jurisly_chat_history>>

\* clearChatHistory() of the settings context, called by the settings
\* page's 'Clear Chat History': localStorage.removeItem('jurisly_chat_history').
ClearChatHistory ==
  /\ loggedIn
  /\ Gesture
  /\ jurisly_chat_history' = <<>>
  /\ lastChat' = ChatLast("clearHistory", FALSE, NoId)
  /\ UNCHANGED <<conversations, currentConversationId, chatUser, queued,
                 isTyping, pending, initTimer, jurisly_chats, now>>

\* handleSendMessage(messageText) up to its await: the input is enabled
\* only while isTyping is false.
HandleSendMessage ==
  /\ loggedIn
  /\ Gesture
  /\ ~isTyping
  /\ Messages(conversations) < MaxMessages
  /\ Render(AddMessage(conversations, currentConversationId,
                       Message(now, "user", "question")),
            currentConversationId)
  /\ isTyping' = TRUE
  /\ pending' = Append(pending, [conv |-> currentConversationId,
                                 stale |-> FALSE])
  /\ lastChat' = ChatLast("send", FALSE, currentConversationId)
  /\ UNCHANGED <<now, chatUser, queued, initTimer, jurisly_chat_history>>

\* The ways the request to the webhook ends: a reply, a status that is not
\* 2xx, a body that is not JSON, a rejected fetch.
Answers == {"ok", "http_error", "invalid_json", "rejects"}

\* What sendMessageToAI resolves to for the answer of the webhook: the
\* reply of the webhook, or the mock text when the request rejects, the
\* status is not 2xx or response.json() throws.
SendMessageToAI(answer) == IF answer = "ok" THEN "reply" ELSE "fallback"

\* Variant of handleSendMessage that leaves the typing indicator on.
TypingKept(stale) == isTyping

\* setIsTyping(false) of handleSendMessage, which reaches the ChatPage the
\* handler belongs to: isTyping of the mounted page afterwards.
TypingCleared(stale) == IF stale THEN isTyping ELSE FALSE

\* handleSendMessage after its await: sendMessageToAI has resolved and the
\* message of the assistant is added through the addMessage the handler
\* captured when it was called. setIsTyping(false) reaches the ChatPage the
\* handler belongs to, which is not the mounted one when the call is stale.
Reply(answer) ==
  /\ queued = <<>>
  /\ pending # <<>>
  /\ LET p == Head(pending)
         aiMessage == Message(now + 1, "ai", SendMessageToAI(answer))
     IN /\ Render(AddMessage(conversations, p.conv, aiMessage),
                  currentConversationId)
        /\ lastChat' = ChatLast("reply", answer # "ok", p.conv)
        /\ isTyping' = TypingCleared(p.stale)
  /\ pending' = Tail(pending)
  /\ UNCHANGED <<now, chatUser, queued, initTimer, jurisly_chat_history, gestures>>

\* Every waiting call belongs to a ChatPage that is unmounted.
Stale(calls) == [i \in DOMAIN calls |-> [calls[i] EXCEPT !.stale = TRUE]]

\* logout(): user becomes null, ChatPage is unmounted and its state dropped;
\* ChatProvider stays mounted and keeps its state.
ChatLogout ==
  /\ loggedIn
  /\ Gesture
  /\ chatUser' = NoUser
  /\ isTyping' = FALSE
  /\ pending' = Stale(pending)
  /\ lastChat' = ChatLast("logout", FALSE, NoId)
  /\ UNCHANGED <<conversations, currentConversationId, queued, initTimer,
                 jurisly_chats, jurisly_chat_history, now>>

\* The load effect of ChatProvider for user `email` with stored chats
\* `stored`: the list set.
LoadedConversations(stored, email) ==
  IF stored # <<>> THEN stored ELSE InitialChat(email)

\* The load effect: the current conversation id set.
LoadedCurrent(stored, convId) ==
  IF stored # <<>>
  THEN IF convId = NoId THEN stored[1].id ELSE convId
  ELSE now

\* What the load effect queues in a provider that has rendered `convs` and
\* `convId`, with the currentConversation?.id of that render.
Queued(convs, convId, email) ==
  [conversations |-> LoadedConversations(jurisly_chats[email], email),
   currentConversationId |-> LoadedCurrent(jurisly_chats[email], convId),
   before |-> CurrentId(convs, convId)]

\* The provider renders the updates q of the load effect, ChatPage's welcome
\* effect runs and the save effect writes the list under the user's key.
Loaded(q) ==
  /\ conversations' =
       Welcomed(q.conversations, q.before, q.currentConversationId)
  /\ currentConversationId' = q.currentConversationId
  /\ jurisly_chats' =
       [jurisly_chats EXCEPT ![chatUser] = Saved(conversations', @)]

\* login() of a user after a logout: the provider, still holding the list
\* and the current id it had, renders with the user?.email of the new user
\* and ChatPage mounts. The load effect reads the key of the user and queues
\* its updates; the save effect of this render then writes the list the
\* provider still holds under the key of the user.
ChatLogin(email) ==
  /\ ~loggedIn
  /\ Gesture
  /\ chatUser' = email
  /\ queued' = <<Queued(conversations, currentConversationId, email)>>
  /\ jurisly_chats' =
       [jurisly_chats EXCEPT ![email] = Saved(conversations, @)]
  /\ lastChat' = ChatLast("login", FALSE, NoId)
  /\ UNCHANGED <<conversations, currentConversationId, isTyping, pending,
                 initTimer, jurisly_chat_history, now>>

\* The render that follows: the queued updates are applied.
RenderLoaded ==
  /\ queued # <<>>
  /\ Loaded(queued[1])
  /\ queued' = <<>>
  /\ lastChat' = ChatLast("loaded", FALSE, NoId)
  /\ UNCHANGED <<chatUser, isTyping, pending, initTimer,
                 jurisly_chat_history, now, gestures>>

\* The page is loaded again: the state of the components, the timers and
\* the waiting calls are gone; a stored session signs the user in again and
\* the provider, mounted with an empty list, loads the stored chats.
ReloadChat ==
  /\ Gesture
  /\ IF loggedIn
     THEN Loaded(Queued(<<>>, NoId, chatUser))
     ELSE /\ conversations' = <<>>
          /\ currentConversationId' = NoId
          /\ UNCHANGED jurisly_chats
  /\ isTyping' = FALSE
  /\ pending' = <<>>
  /\ initTimer' = NoUser
  /\ lastChat' = ChatLast("reload", FALSE, NoId)
  /\ UNCHANGED <<chatUser, queued, jurisly_chat_history, now>>

(* ========================== SettingsProvider =========================== *)

\* The values the settings page offers.
Languages == {"en", "hi"}

AIModes == {"text", "voice-text"}

Themes == {"dark", "purple", "blue", "custom"}

\* The five settings held by the provider, as the object its setters save.
Settings ==
  [language |-> language, voiceEnabled |-> voiceEnabled, aiMode |-> aiMode,
   theme |-> theme, notificationTone |-> notificationTone]

\* value || fallback, for a string.
OrString(value, fallback) == IF value = "" THEN fallback ELSE value

\* value || fallback, for a boolean.
OrBoolean(value, fallback) == IF value THEN value ELSE fallback

\* value ?? fallback, for a boolean parsed from the stored object: the
\* setters store true or false, never null or undefined.
Nullish(value, fallback) == value

\* saveSettings(newSettings)
SaveSettings(newSettings) == jurisly_settings' = <<newSettings>>

\* Each setter sets its own state and saves the object made of the new
\* value and of the other four values of the render the setter belongs to.
\* Each is bound to one control of the settings page, and the provider has
\* rendered again before the next event is handled.
SetLanguage(lang) ==
  /\ language' = lang
  /\ SaveSettings([Settings EXCEPT !.language = lang])
  /\ lastSettings' = "setLanguage"
  /\ UNCHANGED <<voiceEnabled, aiMode, theme, notificationTone>>

SetVoiceEnabled(enabled) ==
  /\ voiceEnabled' = enabled
  /\ SaveSettings([Settings EXCEPT !.voiceEnabled = enabled])
  /\ lastSettings' = "setVoiceEnabled"
  /\ UNCHANGED <<language, aiMode, theme, notificationTone>>

SetAIMode(mode) ==
  /\ aiMode' = mode
  /\ SaveSettings([Settings EXCEPT !.aiMode = mode])
  /\ lastSettings' = "setAIMode"
  /\ UNCHANGED <<language, voiceEnabled, theme, notificationTone>>

SetTheme(newTheme) ==
  /\ theme' = newTheme
  /\ SaveSettings([Settings EXCEPT !.theme = newTheme])
  /\ lastSettings' = "setTheme"
  /\ UNCHANGED <<language, voiceEnabled, aiMode, notificationTone>>

SetNotificationTone(enabled) ==
  /\ notificationTone' = enabled
  /\ SaveSettings([Settings EXCEPT !.notificationTone = enabled])
  /\ lastSettings' = "setNotificationTone"
  /\ UNCHANGED <<language, voiceEnabled, aiMode, theme>>

\* The provider after construction: the useState defaults.
Defaults ==
  [language |-> "en", voiceEnabled |-> TRUE, aiMode |-> "text",
   theme |-> "dark", notificationTone |-> TRUE]

\* What the load effect sets from the stored object.
LoadSettings(settings) ==
  [language |-> OrString(settings.language, "en"),
   voiceEnabled |-> Nullish(settings.voiceEnabled, TRUE),
   aiMode |-> OrString(settings.aiMode, "text"),
   theme |-> OrString(settings.theme, "dark"),
   notificationTone |-> Nullish(settings.notificationTone, TRUE)]

\* The page is loaded again: the provider mounts with the defaults and its
\* load effect reads 'jurisly_settings'.
ReloadSettings ==
  /\ LET loaded == IF jurisly_settings = <<>> THEN Defaults
                   ELSE LoadSettings(jurisly_settings[1])
     IN /\ language' = loaded.language
        /\ voiceEnabled' = loaded.voiceEnabled
        /\ aiMode' = loaded.aiMode
        /\ theme' = loaded.theme
        /\ notificationTone' = loaded.notificationTone
  /\ lastSettings' = "reload"
  /\ UNCHANGED jurisly_settings

\* The settings of a browser that never stored any.
SettingsStart ==
  /\ language = Defaults.language
  /\ voiceEnabled = Defaults.voiceEnabled
  /\ aiMode = Defaults.aiMode
  /\ theme = Defaults.theme
  /\ notificationTone = Defaults.notificationTone
  /\ jurisly_settings = <<>>
  /\ lastSettings = "none"

SettingsStep ==
  \/ \E lang \in Languages : SetLanguage(lang)
  \/ \E enabled \in BOOLEAN : SetVoiceEnabled(enabled)
  \/ \E mode \in AIModes : SetAIMode(mode)
  \/ \E newTheme \in Themes : SetTheme(newTheme)
  \/ \E enabled \in BOOLEAN : SetNotificationTone(enabled)
  \/ ReloadSettings

(* ================== ForgotPassword and ResetPassword =================== *)

\* 24 * 60 * 60 * 1000 milliseconds, in half days.
TokenLifetime == 2

\* Browser tabs showing the page a reset link leads to.
Tabs == {"tab1", "tab2"}

\* What the user sees after a forgot-password request for the email: the
\* kind and text of the toast and the screen of the dialog.
ForgotOutcome(users, email) ==
  IF users = <<>>
  THEN [kind |-> "error", text |-> "No users found. Please sign up first.",
        screen |-> "form"]
  ELSE IF \E i \in DOMAIN users : users[i].email = email
       THEN [kind |-> "success",
             text |-> "Check your email for the password reset link",
             screen |-> "submitted"]
       ELSE [kind |-> "error",
             text |-> "If this email is registered, you will receive a reset link.",
             screen |-> "submitted"]

NoOutcome == [kind |-> "none", text |-> "none", screen |-> "none"]

ResetLast(op, ok, token, email, password, outcome) ==
  [op |-> op, ok |-> ok, token |-> token, email |-> email,
   password |-> password, outcome |-> outcome]

ResetQuiet == ResetLast("other", FALSE, NoId, "none", "none", NoOutcome)

\* tokens[token]: the records stored for the token (one or none).
TokenData(tokens, token) == {t \in tokens : t.token = token}

\* delete tokens[token]
WithoutToken(tokens, token) == tokens \ TokenData(tokens, token)

\* ForgotPassword.handleSubmit, from its read of 'jurisly_users' on: a
\* token is made and stored only for a registered email.
ForgotPassword(email) ==
  /\ LET registered == \E i \in DOMAIN jurisly_users :
                         jurisly_users[i].email = email
     IN IF registered
        THEN /\ nextToken <= MaxTokens
             /\ jurisly_reset_tokens' =
                  jurisly_reset_tokens
                    \cup {[token |-> nextToken, email |-> email,
                           timestamp |-> today]}
             /\ nextToken' = nextToken + 1
        ELSE UNCHANGED <<jurisly_reset_tokens, nextToken>>
  /\ lastReset' = ResetLast("forgot", TRUE, NoId, email, "none",
                            ForgotOutcome(jurisly_users, email))
  /\ UNCHANGED <<today, pages, jurisly_users>>

\* A tab that shows no reset page.
ClosedPage ==
  [open |-> FALSE, token |-> NoId, tokenValid |-> FALSE, isSuccess |-> FALSE]

\* The token is in the store and not older than 24 hours.
Fresh(tokens, token) ==
  \E t \in TokenData(tokens, token) : today - t.timestamp <= TokenLifetime

\* A tab opens a reset link: ResetPassword mounts and its effect looks the
\* token up, and removes it from the store when it has expired.
OpenResetLink(tab, token) ==
  /\ ~pages[tab].open
  /\ pages' = [pages EXCEPT ![tab] =
                 [open |-> TRUE, token |-> token,
                  tokenValid |-> Fresh(jurisly_reset_tokens, token),
                  isSuccess |-> FALSE]]
  /\ jurisly_reset_tokens' =
       IF Fresh(jurisly_reset_tokens, token) THEN jurisly_reset_tokens
       ELSE WithoutToken(jurisly_reset_tokens, token)
  /\ lastReset' = ResetLast("open", Fresh(jurisly_reset_tokens, token),
                            token, "none", "none", NoOutcome)
  /\ UNCHANGED <<nextToken, today, jurisly_users>>

\* users with the password of the first record of the email replaced.
WithPassword(users, email, newPassword) ==
  LET i == FindIndexByEmail(users, email)
  IN IF i = 0 THEN users
     ELSE [users EXCEPT ![i].password = newPassword]

\* ResetPassword.handleSubmit with two equal passwords of 8 characters or
\* more, from its read of 'jurisly_reset_tokens' on. The form is rendered
\* only while tokenValid holds and the reset has not succeeded.
SubmitReset(tab, newPassword) ==
  /\ pages[tab].open
  /\ pages[tab].tokenValid
  /\ ~pages[tab].isSuccess
  /\ LET token == pages[tab].token
         found == TokenData(jurisly_reset_tokens, token)
     IN IF found = {}
        THEN /\ lastReset' = ResetLast("reset", FALSE, token, "none",
                                       newPassword, NoOutcome)
             /\ UNCHANGED <<jurisly_users, jurisly_reset_tokens, pages>>
        ELSE LET tokenData == CHOOSE t \in found : TRUE
             IN /\ jurisly_users' =
                     WithPassword(jurisly_users, tokenData.email, newPassword)
                /\ jurisly_reset_tokens' =
                     WithoutToken(jurisly_reset_tokens, token)
                /\ pages' = [pages EXCEPT ![tab].isSuccess = TRUE]
                /\ lastReset' = ResetLast("reset", TRUE, token,
                                          tokenData.email, newPassword,
                                          NoOutcome)
  /\ UNCHANGED <<nextToken, today>>

\* The tab leaves the reset page: onSuccess() after a reset, or the user
\* goes elsewhere.
ClosePage(tab) ==
  /\ pages[tab].open
  /\ pages' = [pages EXCEPT ![tab] = ClosedPage]
  /\ lastReset' = ResetQuiet
  /\ UNCHANGED <<jurisly_reset_tokens, nextToken, today, jurisly_users>>

\* Half a day passes.
TimePasses ==
  /\ today < MaxDays
  /\ today' = today + 1
  /\ lastReset' = ResetQuiet
  /\ UNCHANGED <<jurisly_reset_tokens, nextToken, pages, jurisly_users>>

\* The lists 'jurisly_users' holds after no, one or two signups.
RegisteredLists ==
  {<<>>,
   <<[email |-> "a@x", password |-> "p1", name |-> "n1"]>>,
   <<[email |-> "a@x", password |-> "p1", name |-> "n1"],
     [email |-> "b@x", password |-> "p1", name |-> "n2"]>>}

\* No reset token was ever made and no reset page is shown.
ResetStart ==
  /\ jurisly_reset_tokens = {}
  /\ nextToken = 1
  /\ today = 0
  /\ pages = [tab \in Tabs |-> ClosedPage]
  /\ lastReset = ResetQuiet

ResetStep ==
  \/ \E email \in Emails : ForgotPassword(email)
  \/ \E tab \in Tabs, token \in 1..MaxTokens : OpenResetLink(tab, token)
  \/ \E tab \in Tabs, newPassword \in Passwords : SubmitReset(tab, newPassword)
  \/ \E tab \in Tabs : ClosePage(tab)
  \/ TimePasses

(* ============================ specifications =========================== *)

\* The feed's variables while another part of the program is examined.
FeedIdle ==
  /\ authUser = NoUser
  /\ table = {}
  /\ nextId = 1
  /\ channels = << >>
  /\ mounted = FALSE
  /\ conversationId = NoConv
  /\ messages = <<>>
  /\ channel = NoChannel
  /\ effects = <<>>
  /\ ops = 0
  /\ sent = {}
  /\ cleared = {}
  /\ last = Quiet

AuthStart ==
  /\ useSupabase \in BOOLEAN
  /\ user = Nobody
  /\ session = NoUser
  /\ accounts = << >>
  /\ jurisly_users = <<>>
  /\ jurisly_user = Nobody
  /\ lastAuth = AuthQuiet

\* The auth context's variables while another part is examined.
AuthIdle ==
  /\ useSupabase = TRUE
  /\ user = Nobody
  /\ session = NoUser
  /\ accounts = << >>
  /\ jurisly_users = <<>>
  /\ jurisly_user = Nobody
  /\ lastAuth = AuthQuiet

\* The chat screen after the provider has mounted for a user without stored
\* chats: createInitialChat and the welcome effect have run.
ChatStart ==
  /\ now = 1
  /\ conversations =
       AddMessage(<<Conversation(1, "a@x", FixedTitle("Welcome to Jurisly"))>>,
                  1, Message(1, "ai", "welcome"))
  /\ currentConversationId = 1
  /\ chatUser = "a@x"
  /\ queued = <<>>
  /\ isTyping = FALSE
  /\ pending = <<>>
  /\ initTimer = NoUser
  /\ jurisly_chats =
       [email \in Emails |-> IF email = "a@x" THEN conversations ELSE <<>>]
  /\ jurisly_chat_history = <<>>
  /\ gestures = 0
  /\ lastChat = ChatQuiet

\* The chat screen's variables while another part is examined.
ChatIdle ==
  /\ now = 1
  /\ conversations = <<>>
  /\ currentConversationId = NoId
  /\ chatUser = NoUser
  /\ queued = <<>>
  /\ isTyping = FALSE
  /\ pending = <<>>
  /\ initTimer = NoUser
  /\ jurisly_chats = [email \in Emails |-> <<>>]
  /\ jurisly_chat_history = <<>>
  /\ gestures = 0
  /\ lastChat = ChatQuiet

ChatStep ==
  \/ Tick
  \/ TimerFires
  \/ CreateNewChat
  \/ \E id \in 1..MaxClock : SwitchConversation(id)
  \/ \E id \in 1..MaxClock : DeleteConversation(id)
  \/ ClearAllChats
  \/ ClearChatHistory
  \/ HandleSendMessage
  \/ \E answer \in Answers : Reply(answer)
  \/ ChatLogout
  \/ \E email \in Emails : ChatLogin(email)
  \/ RenderLoaded
  \/ ReloadChat

AuthStep ==
  \/ \E email \in Emails, password \in Passwords : Login(email, password)
  \/ \E email \in Emails, password \in Passwords, name \in Names :
       Signup(email, password, name)
  \/ \E email \in Emails : Verify(email)
  \/ Logout
  \/ Reload
  \/ \E name \in Names : UpdateUserProfile(name)
  \/ \E cur \in Passwords, new \in Passwords : UpdatePassword(cur, new)

InitFeed ==
  FeedStart /\ AuthIdle /\ ChatIdle /\ SettingsStart /\ ResetStart

NextFeed ==
  FeedStep /\ UNCHANGED <<authVars, chatVars, settingsVars, resetVars>>

SpecFeed == InitFeed /\ [][NextFeed]_vars

\* The steps the hook and the realtime service take by themselves: the
\* awaits of setupRealtime resolve and queued notifications are delivered.
FeedRuns ==
  /\ \/ \E e \in DOMAIN effects : EffFetch(e)
     \/ \E e \in DOMAIN effects : EffSubscribe(e)
     \/ \E c \in DOMAIN channels, twice \in BOOLEAN : Deliver(c, twice)
  /\ UNCHANGED <<authVars, chatVars, settingsVars, resetVars>>

\* The live feed with every such step taken in the end.
SpecFeedLive == InitFeed /\ [][NextFeed]_vars /\ WF_vars(FeedRuns)

InitAuth ==
  AuthStart /\ FeedIdle /\ ChatIdle /\ SettingsStart /\ ResetStart

NextAuth ==
  AuthStep /\ UNCHANGED <<feedVars, chatVars, settingsVars, resetVars>>

SpecAuth == InitAuth /\ [][NextAuth]_vars

InitChat ==
  ChatStart /\ FeedIdle /\ AuthIdle /\ SettingsStart /\ ResetStart

NextChat ==
  ChatStep /\ UNCHANGED <<feedVars, authVars, settingsVars, resetVars>>

SpecChat == InitChat /\ [][NextChat]_vars

\* The steps the chat takes by itself: the request to the webhook ends and
\* the handler goes on after its await.
ReplyArrives ==
  /\ \E answer \in Answers : Reply(answer)
  /\ UNCHANGED <<feedVars, authVars, settingsVars, resetVars>>

\* The render React schedules for the updates the load effect queued.
QueuedRendered ==
  /\ RenderLoaded
  /\ UNCHANGED <<feedVars, authVars, settingsVars, resetVars>>

\* The chat with every request to the webhook ended and every scheduled
\* render done in the end.
SpecChatLive ==
  /\ InitChat
  /\ [][NextChat]_vars
  /\ WF_vars(ReplyArrives)
  /\ WF_vars(QueuedRendered)

InitSettings ==
  SettingsStart /\ FeedIdle /\ AuthIdle /\ ChatIdle /\ ResetStart

NextSettings ==
  SettingsStep /\ UNCHANGED <<feedVars, authVars, chatVars, resetVars>>

SpecSettings == InitSettings /\ [][NextSettings]_vars

\* The browser of the password reset: fallback mode, nobody signed in, and
\* the accounts of earlier signups.
InitReset ==
  /\ ResetStart
  /\ FeedIdle
  /\ ChatIdle
  /\ SettingsStart
  /\ useSupabase = FALSE
  /\ user = Nobody
  /\ session = NoUser
  /\ accounts = << >>
  /\ jurisly_users \in RegisteredLists
  /\ jurisly_user = Nobody
  /\ lastAuth = AuthQuiet

NextReset ==
  /\ ResetStep
  /\ UNCHANGED <<feedVars, chatVars, settingsVars, useSupabase, user,
                 session, accounts, jurisly_user, lastAuth>>

SpecReset == InitReset /\ [][NextReset]_vars

(* ------------------------ properties of the feed ----------------------- *)

\* Number of entries of the list with the given id.
Copies(list, id) == Cardinality({i \in DOMAIN list : list[i].id = id})

\* Channel c hands its next notification to its handler in this step.
Delivering(c) ==
  /\ c \in DOMAIN channels'
  /\ channels[c].queue # <<>>
  /\ channels'[c].queue = Tail(channels[c].queue)

\* The conversation test of the INSERT handler.
FilterPasses(conv, row) == conv = NoConv \/ row.conversation_id = conv

\* C1: the local message list never holds two entries with the same id,
\* whatever fetches, refetches and INSERT, UPDATE and DELETE notifications
\* arrive, a notification delivered more than once included.
NoDuplicateIds ==
  \A i, j \in DOMAIN messages : messages[i].id = messages[j].id => i = j

\* C1 witness: an INSERT notification was delivered for a row the list
\* already held, or was delivered two times, and the row is in the list.
RepeatedInsertDelivered ==
  /\ last.op = "INSERT"
  /\ last.had \/ ~last.ok
  /\ last.id \in Ids(messages)

\* C2 as stated: whenever the INSERT notification of a row returned by
\* sendMessage reaches the handler of the hook's current channel and the
\* row is not yet in the list, the list grows by exactly one.
SentRowGrowsList ==
  [][\A c \in DOMAIN channels :
       LET ev == Head(channels[c].queue)
       IN (/\ Delivering(c)
           /\ c = channel
           /\ ev.type = "INSERT"
           /\ ev.row.id \in sent
           /\ ev.row.id \notin Ids(messages))
          => Len(messages') = Len(messages) + 1]_vars

\* C2 amended: when the INSERT notification of a row returned by
\* sendMessage reaches a handler, then, if the handler's conversation filter
\* is absent or equals the row's conversation_id, the list holds the row
\* exactly once afterwards (it grew by one if the row was not in it and
\* kept its length otherwise); if the filter differs, the list is unchanged.
SentRowDelivered ==
  [][\A c \in DOMAIN channels :
       LET ev == Head(channels[c].queue)
       IN (/\ Delivering(c)
           /\ ev.type = "INSERT"
           /\ ev.row.id \in sent)
          => IF FilterPasses(channels[c].conv, ev.row)
             THEN /\ Copies(messages', ev.row.id) = 1
                  /\ Len(messages') = Len(messages)
                        + (IF ev.row.id \in Ids(messages) THEN 0 ELSE 1)
             ELSE messages' = messages]_vars

\* C2 witness: the notification of a sent row was delivered and added the
\* row to the list.
SentRowAdded ==
  /\ last.op = "INSERT"
  /\ last.id \in sent
  /\ ~last.had
  /\ last.id \in Ids(messages)

\* C3 as stated: deleteMessage(id) for an id no row has returns false.
DeleteMissingReturnsFalse ==
  (last.op = "delete" /\ ~last.had) => ~last.ok

\* C6 as stated: without a signed-in user sendMessage, deleteMessage and
\* clearMessages return failure and send no write or delete request.
SignedOutFeedRefuses ==
  (authUser = NoUser /\ last.op \in {"send", "delete", "clear"})
    => (~last.ok /\ ~last.call)

\* Every run of the effect has finished setupRealtime.
AllSetUp == \A e \in DOMAIN effects : effects[e].pc = "done"

\* C7 as stated: at most one channel is open at any time, and once the
\* set-up has run to its end no channel is open after an unmount and no
\* channel but the current run's after a filter change.
ChannelsClosed ==
  /\ Cardinality(DOMAIN channels) <= 1
  /\ (~mounted /\ AllSetUp) => DOMAIN channels = {}
  /\ (mounted /\ AllSetUp) => DOMAIN channels \subseteq {Current}

\* C8: right after clearMessages() returned true the local list is empty,
\* and as long as no row is inserted afterwards a fetch for the same user
\* and filter finds no row and leaves the list empty.
ClearLeavesEmpty ==
  /\ (last.op = "clear" /\ last.ok) => messages = <<>>
  /\ \A c \in cleared : \A err \in BOOLEAN : FetchedRows(err, c) = <<>>
  /\ (last.op = "fetch" /\ last.conv \in cleared) => messages = <<>>

\* C8 witness: rows were inserted, a clear succeeded and a later refetch
\* with the cleared filter succeeded with no insert in between.
FetchedAfterClear ==
  /\ last.op = "fetch"
  /\ last.ok
  /\ last.conv \in cleared
  /\ nextId > 1

\* A row with the id is in the table, belongs to the signed-in user and
\* passes the conversation filter of the mounted hook.
RowToShow(id) ==
  /\ mounted
  /\ \E r \in table :
       /\ r.id = id
       /\ r.user_id = authUser
       /\ conversationId = NoConv \/ r.conversation_id = conversationId

\* C27: with a conversation filter every entry of the local list has the
\* conversation_id of the filter, after any fetches, notifications and
\* changes of the filter from one conversation to another.
ListWithinFilter ==
  (mounted /\ conversationId # NoConv)
    => \A i \in DOMAIN messages :
         messages[i].conversation_id = conversationId

\* C28: the local list is ordered by creation time: created_at does not
\* decrease along the list, in whatever order the notifications arrive.
ListOrderedByCreation ==
  \A i, j \in DOMAIN messages :
    i < j => messages[i].created_at <= messages[j].created_at

\* C22: every row of the user that is in the table while the hook is
\* mounted is in the local list in the end, unless the row has gone or the
\* hook has unmounted or changed its filter before: no refetch is needed.
EveryRowShownInTheEnd ==
  \A id \in 1..MaxOps :
    RowToShow(id) ~> (id \in Ids(messages) \/ ~RowToShow(id))

(* ------------------- properties of the auth context -------------------- *)

\* The credential store of the running mode holds the email with the
\* password.
Known(email, password) ==
  IF useSupabase THEN Registered(email, password)
  ELSE FindUser(jurisly_users, email, password) # 0

\* The owner of the email has followed a verification link.
Verified(email) ==
  useSupabase /\ email \in DOMAIN accounts /\ accounts[email].confirmed

\* The identity service answered every request of the call normally.
Answered(l) ==
  l.via \notin {"throws", "error"} /\ l.so \notin {"error", "throws"}

LogoutClearsUser ==
  lastAuth.op = "logout"
    => /\ user = Nobody
       /\ ~useSupabase => jurisly_user = Nobody

\* C10: in fallback mode login(email, password) returns success exactly when
\* the stored list holds a record with that email and that password; a
\* failure comes with a reason and leaves the current user and both storage
\* keys as they were.
FallbackLoginExact ==
  [][(lastAuth'.op = "login" /\ ~useSupabase)
     => /\ lastAuth'.ok <=>
             \E i \in DOMAIN jurisly_users :
               /\ jurisly_users[i].email = lastAuth'.email
               /\ jurisly_users[i].password = lastAuth'.password
        /\ lastAuth'.ok => user'.email = lastAuth'.email
        /\ ~lastAuth'.ok
             => /\ lastAuth'.reason # "none"
                /\ user' = user
                /\ jurisly_users' = jurisly_users
                /\ jurisly_user' = jurisly_user]_vars

\* C10 witness: fallback mode, a login with a stored email and another
\* password was refused.
WrongPasswordRefused ==
  /\ ~useSupabase
  /\ lastAuth.op = "login"
  /\ ~lastAuth.ok
  /\ \E i \in DOMAIN jurisly_users : jurisly_users[i].email = lastAuth.email

\* The password stored for an email in the fallback list is `password`.
StoredPassword(users, email, password) ==
  \E i \in DOMAIN users :
    users[i].email = email /\ users[i].password = password

\* C29 as stated: in fallback mode updatePassword(current, new) succeeds
\* only when `current` is the stored password of the logged-in user; after
\* a success a login with the old password fails and a login with the new
\* one succeeds; after a failure the stored list is unchanged.
PasswordChangeReplacesOld ==
  [][(lastAuth'.op = "updatePassword" /\ ~useSupabase)
     => /\ lastAuth'.ok
             => /\ user # Nobody
                /\ StoredPassword(jurisly_users, user.email,
                                  lastAuth'.password)
                /\ FindUser(jurisly_users', user.email,
                            lastAuth'.password) = 0
                /\ FindUser(jurisly_users', user.email, lastAuth'.new) # 0
        /\ ~lastAuth'.ok => jurisly_users' = jurisly_users]_vars

\* C29: as above, a login with the old password failing after a success
\* when the new password is another one than the old.
PasswordChangeTakesEffect ==
  [][(lastAuth'.op = "updatePassword" /\ ~useSupabase)
     => /\ lastAuth'.ok
             => /\ user # Nobody
                /\ StoredPassword(jurisly_users, user.email,
                                  lastAuth'.password)
                /\ lastAuth'.new # lastAuth'.password
                     => FindUser(jurisly_users', user.email,
                                 lastAuth'.password) = 0
                /\ FindUser(jurisly_users', user.email, lastAuth'.new) # 0
        /\ ~lastAuth'.ok => jurisly_users' = jurisly_users]_vars

\* C29 witness: fallback mode, the logged-in user changed the password to
\* another one, and the list now holds the new password for that user.
PasswordChanged ==
  /\ ~useSupabase
  /\ lastAuth.op = "updatePassword"
  /\ lastAuth.ok
  /\ lastAuth.new # lastAuth.password
  /\ user # Nobody
  /\ FindUser(jurisly_users, user.email, lastAuth.new) # 0
  /\ FindUser(jurisly_users, user.email, lastAuth.password) = 0

\* C17: in fallback mode a successful login or signup stores the user it
\* sets, logout removes the stored user, and the start-up probe of a page
\* loaded again sets the user there was: the same email and name after a
\* login or signup, no user after a logout.
FallbackSessionSurvives ==
  [][~useSupabase
     => /\ lastAuth'.op = "reload" => user' = user
        /\ (lastAuth'.op \in {"login", "signup"} /\ lastAuth'.ok)
             => /\ user' # Nobody
                /\ user'.email = lastAuth'.email
                /\ jurisly_user' = user'
        /\ lastAuth'.op = "logout"
             => /\ user' = Nobody
                /\ jurisly_user' = Nobody]_vars

\* C17 witness: fallback mode, the page was loaded again and the user who
\* had signed up is the current user.
RestartedSignedIn ==
  /\ ~useSupabase
  /\ lastAuth.op = "reload"
  /\ user # Nobody
  /\ \E i \in DOMAIN jurisly_users :
       UserData(jurisly_users[i].email, jurisly_users[i].name) = user

\* C21: in hosted mode the current user, when there is one, has a
\* confirmed email.
VerifiedWhenAuthenticated ==
  (useSupabase /\ user # Nobody)
    => /\ user.email \in DOMAIN accounts
       /\ accounts[user.email].confirmed

(* ------------------- properties of the chat screen --------------------- *)

\* The assistant message the handler adds when the webhook failed.
FallbackMessage == Message(now + 1, "ai", SendMessageToAI("rejects"))

\* C4 as stated: when the webhook request of a sent message has failed,
\* the conversation the message was sent in is still there and exactly one
\* assistant message with the fallback text is appended to it.
FallbackAlwaysAppended ==
  [][(lastChat'.op = "reply" /\ lastChat'.failed)
     => \E i \in DOMAIN conversations :
          /\ conversations[i].id = lastChat'.conv
          /\ i \in DOMAIN conversations'
          /\ conversations'[i].messages =
               Append(conversations[i].messages, FallbackMessage)]_vars

\* C4 amended: when the webhook request of a sent message has failed,
\* exactly one assistant message with the fallback text is appended to each
\* conversation carrying the id of the conversation the message was sent
\* in, wherever the user has switched to meanwhile, and every other
\* conversation is left as it is; nothing is appended when no such
\* conversation is left (it was deleted, or all chats were cleared).
FallbackAppendedWhereSent ==
  [][(lastChat'.op = "reply" /\ lastChat'.failed)
     => /\ Len(conversations') = Len(conversations)
        /\ \A i \in DOMAIN conversations :
             conversations'[i].messages =
               IF conversations[i].id = lastChat'.conv
               THEN Append(conversations[i].messages, FallbackMessage)
               ELSE conversations[i].messages]_vars

\* C4 witness: the webhook failed after the user had gone to another
\* conversation, and the fallback message is the last message of the
\* conversation the message was sent in.
FallbackAfterSwitch ==
  /\ lastChat.op = "reply"
  /\ lastChat.failed
  /\ currentConversationId # lastChat.conv
  /\ \E i \in DOMAIN conversations :
       /\ conversations[i].id = lastChat.conv
       /\ conversations[i].messages # <<>>
       /\ conversations[i].messages[Len(conversations[i].messages)].text
            = "fallback"

\* The message handleSendMessage hands to addMessage in the step just
\* taken: the message of the user, or the message of the assistant.
AddedMessage(l) ==
  IF l.op = "send" THEN Message(now, "user", "question")
  ELSE Message(now + 1, "ai", IF l.failed THEN "fallback" ELSE "reply")

\* The step is a call of addMessage by handleSendMessage.
AddsMessage == lastChat'.op \in {"send", "reply"}

\* Conversations of the list carrying the id.
Carrying(convs, id) == {i \in DOMAIN convs : convs[i].id = id}

\* C11 as stated: every message handleSendMessage adds raises the number
\* of messages kept by exactly one: it is appended to one conversation, the
\* one the handler works on, and every other conversation is unchanged.
EveryMessageAddsOne ==
  [][AddsMessage
     => /\ Messages(conversations') = Messages(conversations) + 1
        /\ \E i \in DOMAIN conversations :
             /\ conversations[i].id = lastChat'.conv
             /\ Len(conversations') = Len(conversations)
             /\ conversations'[i].messages =
                  Append(conversations[i].messages, AddedMessage(lastChat'))
             /\ \A j \in DOMAIN conversations \ {i} :
                  conversations'[j] = conversations[j]]_vars

\* C11 amended: a message handleSendMessage adds is appended to every
\* conversation carrying the current conversation id its handler captured
\* and every other conversation is unchanged: the number of messages kept
\* grows by the number of conversations carrying that id, which is one
\* when the conversation is in the list under an id of its own, and zero
\* when no conversation carries the id.
MessageAddedToCarriers ==
  [][AddsMessage
     => /\ Len(conversations') = Len(conversations)
        /\ \A i \in DOMAIN conversations :
             IF conversations[i].id = lastChat'.conv
             THEN conversations'[i].messages =
                    Append(conversations[i].messages, AddedMessage(lastChat'))
             ELSE conversations'[i] = conversations[i]
        /\ Messages(conversations') =
             Messages(conversations)
               + Cardinality(Carrying(conversations, lastChat'.conv))]_vars

\* C11 witness: a message of the user was added to the current
\* conversation, one of two with different ids.
MessageAddedToOneOfTwo ==
  /\ lastChat.op = "send"
  /\ Len(conversations) = 2
  /\ Cardinality(Carrying(conversations, lastChat.conv)) = 1
  /\ \E i \in Carrying(conversations, lastChat.conv) :
       conversations[i].messages[Len(conversations[i].messages)].sender
         = "user"

\* The conversation holds no message of the user.
NoUserMessage(conv) ==
  \A k \in DOMAIN conv.messages : conv.messages[k].sender # "user"

\* C12: when the user sends the first message of theirs in a conversation,
\* the title of the conversation becomes the first 50 characters of the
\* text (with '...' when the text is longer); when the conversation already
\* holds a message of the user, sending leaves the title as it is.
FirstUserMessageTitles ==
  [][lastChat'.op = "send"
     => \A i \in DOMAIN conversations :
          conversations[i].id = lastChat'.conv
            => conversations'[i].title =
                 IF NoUserMessage(conversations[i])
                 THEN TitleOf(AddedMessage(lastChat').text)
                 ELSE conversations[i].title]_vars

\* C13: when a signed-in user logs out or the page is loaded again, the
\* list the load effect will set from 'jurisly_chats_<email>' at the next
\* login of the user (at the reload) is the list held in memory;
\* the stored list does not change while nobody is signed in.
StoredChatsAreTheList ==
  [][(loggedIn /\ lastChat'.op \in {"logout", "reload"})
     => LoadedConversations(jurisly_chats[chatUser], chatUser)
          = conversations]_vars

\* C14: right after clearAllChats() the list is one new conversation
\* titled 'Welcome to Jurisly' holding no message of the user (nothing, or
\* the welcome message of the assistant), that conversation is the current
\* one, and the stored list is this list: no earlier conversation is left
\* in memory or under the storage key.
ClearAllLeavesWelcome ==
  [][lastChat'.op = "clear"
     => /\ Len(conversations') = 1
        /\ conversations'[1].id = now
        /\ conversations'[1].title = FixedTitle("Welcome to Jurisly")
        /\ conversations'[1].messages
             \in {<<>>, <<Message(now, "ai", "welcome")>>}
        /\ NoUserMessage(conversations'[1])
        /\ currentConversationId' = conversations'[1].id
        /\ jurisly_chats'[chatUser] = conversations']_vars

\* C14 witness: all chats were cleared after the clock had moved on, and
\* the one conversation left is newer than every conversation before.
ClearedToNewChat ==
  /\ lastChat.op = "clear"
  /\ now = MaxClock
  /\ Len(conversations) = 1
  /\ conversations[1].id = MaxClock
  /\ jurisly_chats[chatUser] = conversations

\* The conversations of a list, as a set.
Kept(convs) == {convs[i] : i \in DOMAIN convs}

\* C15: after the settings page's 'Clear Chat History' neither the list in
\* memory nor the list stored for the user holds a conversation that was
\* stored before.
ClearHistoryDeletesChats ==
  [][lastChat'.op = "clearHistory"
     => /\ Kept(conversations') \cap Kept(jurisly_chats[chatUser]) = {}
        /\ Kept(jurisly_chats'[chatUser])
             \cap Kept(jurisly_chats[chatUser]) = {}]_vars

\* A list without its entry at position i.
WithoutEntry(convs, i) ==
  [k \in 1..(Len(convs) - 1) |-> IF k < i THEN convs[k] ELSE convs[k + 1]]

\* A new welcome conversation without messages.
EmptyWelcome(conv) ==
  /\ conv.title = FixedTitle("Welcome to Jurisly")
  /\ conv.messages = <<>>

\* C25: deleteConversation(id) removes the one conversation with that id and
\* leaves the others as they were; when it was the current one the first
\* conversation left becomes current, and when none is left a new empty
\* welcome conversation is created and is current; deleting another
\* conversation leaves currentConversationId as it was.
DeleteRemovesOne ==
  [][lastChat'.op = "delete"
     => LET rest == WithoutEntry(conversations,
                                 CurrentIndex(conversations, lastChat'.conv))
        IN IF lastChat'.conv # currentConversationId
           THEN /\ conversations' = rest
                /\ currentConversationId' = currentConversationId
           ELSE IF rest # <<>>
           THEN /\ conversations' = rest
                /\ currentConversationId' = rest[1].id
           ELSE /\ Len(conversations') = 1
                /\ EmptyWelcome(conversations'[1])
                /\ currentConversationId' = conversations'[1].id]_vars

\* No two entries of a list of conversations or of messages share an id.
DistinctIds(list) ==
  \A i, j \in DOMAIN list : list[i].id = list[j].id => i = j

\* C26: the ids in the chat container are unique: the conversations of the
\* list have pairwise distinct ids and so have the messages of each
\* conversation, whatever createNewChat, clearAllChats, deleteConversation,
\* welcome messages and sends took place.
IdsUnique ==
  /\ DistinctIds(conversations)
  /\ \A i \in DOMAIN conversations : DistinctIds(conversations[i].messages)

\* C30: every send from the chat screen ends with the typing indicator
\* cleared: whenever isTyping is true it is false again later, whether the
\* webhook replies, answers with a status that is not 2xx or with a body
\* that is not JSON, or the request rejects.
TypingEnds == isTyping ~> ~isTyping

\* C30 witness: a request that did not bring a reply of the webhook has
\* ended and the typing indicator of the mounted page is off.
TypingEndedAfterFailure ==
  /\ loggedIn
  /\ lastChat.op = "reply"
  /\ lastChat.failed
  /\ ~isTyping
  /\ pending = <<>>

\* C23: the conversations are isolated per user: every conversation the
\* provider holds while a user is logged in, and every conversation stored
\* under the key 'jurisly_chats_<email>' of a user, has the email of that
\* user as its userId, also after one user logged out and another logged in.
ConversationsIsolated ==
  /\ loggedIn =>
       \A i \in DOMAIN conversations : conversations[i].userId = chatUser
  /\ \A email \in Emails :
       \A i \in DOMAIN jurisly_chats[email] :
         jurisly_chats[email][i].userId = email

\* C24: whenever a user is logged in, the list is not empty and no state
\* update is waiting, currentConversationId is the id of a conversation of
\* the list: after createNewChat, deleteConversation and clearAllChats, and
\* after a logout followed by the login of another user.
CurrentIsListed ==
  (loggedIn /\ conversations # <<>> /\ queued = <<>>)
    => CurrentIndex(conversations, currentConversationId) # 0

\* C18: while a call of handleSendMessage waits for sendMessageToAI the
\* input of the chat screen is disabled, so that at most one call waits at
\* any time and no message of the user is added before the reply to the
\* message before it.
OneRequestInFlight ==
  /\ Len(pending) <= 1
  /\ (loggedIn /\ pending # <<>>) => isTyping

(* --------------------- properties of the settings ---------------------- *)

\* C16: every setter leaves under 'jurisly_settings' the object of the five
\* settings held in memory, the stored object is the settings in memory
\* whenever there is one, and a reload sets each of the five settings to
\* the value it had, the value last set.
SettingsPersist ==
  [][/\ lastSettings' \notin {"none", "reload"}
          => jurisly_settings' = <<Settings'>>
     /\ jurisly_settings' # <<>> => jurisly_settings'[1] = Settings'
     /\ lastSettings' = "reload" => Settings' = Settings]_vars

\* C16 witness: the page was loaded again after each of the five settings
\* had been set to a value that is not its default, and every one of them
\* has the value set.
AllFiveRestored ==
  /\ lastSettings = "reload"
  /\ Settings = [language |-> "hi", voiceEnabled |-> FALSE,
                 aiMode |-> "voice-text", theme |-> "custom",
                 notificationTone |-> FALSE]

(* ------------------ properties of the password reset ------------------- *)

\* C19: a reset succeeds only with a token that is in the store and at most
\* 24 hours old when the password is changed; it changes the password of
\* the account of the token's email and of no other account, and removes
\* the token from the store.
ResetTokenChecked ==
  [][(lastReset'.op = "reset" /\ lastReset'.ok)
     => /\ \E t \in TokenData(jurisly_reset_tokens, lastReset'.token) :
             /\ today - t.timestamp <= TokenLifetime
             /\ jurisly_users' =
                  WithPassword(jurisly_users, t.email, lastReset'.password)
        /\ TokenData(jurisly_reset_tokens', lastReset'.token) = {}]_vars

\* C20: the toast and the screen a forgot-password request ends with are
\* the same for every email, registered or not.
ForgotRevealsNothing ==
  [][lastReset'.op = "forgot"
     => \A email \in Emails :
          ForgotOutcome(jurisly_users, email) = lastReset'.outcome]_vars

====
